---- MODULE Spec2Model ----
(***************************************************************************)
(* Model of the letterboxd-random watchlist endpoint.                      *)
(*                                                                         *)
(* Three deployments of the same endpoint are modelled:                    *)
(*   "node"   - src/api/watchlist.js       (serverless function, 20 pages) *)
(*   "worker" - src/unnamed/part_000:1-211 (scraping worker, 20 pages)     *)
(*   "agg"    - src/unnamed/part_000:213-480 (aggregation API first, with  *)
(*              fallbackScrape, 10 pages)                                  *)
(* One behaviour serves one request.  A step of the model is everything    *)
(* the handler does between two awaits.                                    *)
(***************************************************************************)
EXTENDS Integers, Sequences, FiniteSets, TLC

VARIABLES
  variant,    \* which deployment serves the request
  req,        \* the request: method and query parameters
  pc,         \* the await the handler is suspended at, or "start" / "done"
  page,       \* let page
  hasMore,    \* let hasMore
  allMovies,  \* const allMovies
  apiMovies,  \* const movies of the aggregation handler
  hops,       \* redirects fetchUrl followed for the page in flight
  fetchLog,   \* every outbound fetch issued, in order
  extracted,  \* the result of every parseMovies call, in order
  last,       \* how the fetch that settled last settled
  responses,  \* the responses sent
  escaped,    \* an exception left the handler
  exIn,       \* the argument of one call of an extractor
  exBy,       \* the extractor that was called, "none" before the call
  exOut,      \* the records the call returned
  isoFrames,  \* two requests in one process: the locals of each invocation
  isoLists    \* two requests in one process: the arrays of the process

handlerVars == <<variant, req, pc, page, hasMore, allMovies, apiMovies, hops,
                 fetchLog, extracted, last, responses, escaped>>

extractVars == <<exIn, exBy, exOut>>

isoVars == <<isoFrames, isoLists>>

vars == <<handlerVars, extractVars, isoVars>>

----------------------------------------------------------------------------
(* Bounds of the model and constants of the program *)

\* pages 1..RichPages draw their body from every document of Htmls
RichPages == 1
\* longest document, in markup tokens
MaxHtmlLen == 2
\* longest item list the aggregation API answers with
MaxItems == 2
\* redirects followed by fetchUrl for one page
MaxRedirects == 1

\* while (hasMore && page <= 20)
PrimaryCap == 20
\* while (hasMore && page <= 10)
FallbackCap == 10
\* html.indexOf(slug) - 500 and + 500
NodeWindow == 500
\* slugIndex - 1000 and + 1000
WorkerWindow == 1000
\* the characters of a run of other markup in a document
OtherMarkupChars == 600
\* longest document handed to an extractor on its own, in markup tokens
ExMaxLen == 3
\* of two requests in one process: the pages that can carry a record
IsoPages == 2

Variants == {"node", "worker", "agg"}

\* a query parameter that is not in the query string
Absent == "<absent>"

----------------------------------------------------------------------------
(* Texts: a string the program takes apart is a sequence of characters; a *)
(* literal it only copies is kept as one element                           *)

Dune == <<"d", "u", "n", "e">>

Heat == <<"h", "e", "a", "t">>

Slugs == {Dune, Heat}

Digits == {"0", "1", "2", "3", "4", "5", "6", "7", "8", "9"}

\* s.replace(/-/g, ' ')
ReplaceDashes(t) == [i \in 1..Len(t) |-> IF t[i] = "-" THEN " " ELSE t[i]]

\* the positions where /\((\d{4})\)/ matches in t
YearMatches(t) ==
  {i \in 1..(Len(t) - 5) :
     /\ t[i] = "("
     /\ \A k \in 1..4 : t[i + k] \in Digits
     /\ t[i + 5] = ")"}

Least(S) == CHOOSE x \in S : \A y \in S : x <= y

\* name.match(/\((\d{4})\)/): group 1 of the first match, or ''
YearOf(t) ==
  IF YearMatches(t) = {} THEN <<>>
  ELSE SubSeq(t, Least(YearMatches(t)) + 1, Least(YearMatches(t)) + 4)

\* the 0-based positions at which sub occurs in t
Occurrences(t, sub) ==
  {p \in 0..(Len(t) - Len(sub)) : SubSeq(t, p + 1, p + Len(sub)) = sub}

\* `https://letterboxd.com/film/${slug}/`
LinkOf(slug) == <<"https://letterboxd.com/film/">> \o slug \o <<"/">>

----------------------------------------------------------------------------
(* Documents: a page body is a sequence of markup tokens.  A token is one *)
(* attribute with its value, a marker text, or a run of other markup       *)

SlugAttrs == {"data-film-slug", "data-item-slug", "href-film"}

SlugTokens == [attr : SlugAttrs, val : Slugs]

\* the two literal markers of a bot-challenge page
Markers == {"challenge-platform", "Just a moment"}

MarkerTokens == [attr : {"text"}, val : Markers]

Tokens == SlugTokens \cup MarkerTokens

SeqsUpTo(S, n) == UNION {[1..k -> S] : k \in 0..n}

Htmls == SeqsUpTo(Tokens, MaxHtmlLen)

\* documents served for the pages after RichPages
DeepHtmls ==
  {<<>>,
   <<[attr |-> "data-film-slug", val |-> Dune]>>,
   <<[attr |-> "text", val |-> "Just a moment"]>>}

HtmlsOfPage(p) == IF p <= RichPages THEN Htmls ELSE DeepHtmls

\* html.includes(marker)
Includes(html, marker) ==
  \E i \in 1..Len(html) : html[i].attr = "text" /\ html[i].val = marker

\* mutant of IsChallenge: the second marker is forgotten
IsChallengeFirstMarker(html) == Includes(html, "challenge-platform")

\* html.includes('challenge-platform') || html.includes('Just a moment')
IsChallenge(html) ==
  Includes(html, "challenge-platform") \/ Includes(html, "Just a moment")

\* attributes whose value is a text
ValueAttrs == SlugAttrs \cup {"data-film-name", "data-item-name", "alt"}

\* the characters of a token before its value: data-film-slug=" and
\* data-item-slug=" and data-film-name=" have 16, href="/film/ has 12,
\* alt=" has 5
LeadLen(tok) ==
  CASE tok.attr \in {"data-film-slug", "data-item-slug", "data-film-name",
                     "data-item-name"} -> 16
    [] tok.attr = "href-film" -> 12
    [] tok.attr = "alt" -> 5
    [] OTHER -> 0

\* the characters of a token: lead, value and closing quote (/" for a link)
Width(tok) ==
  CASE tok.attr = "href-film" -> LeadLen(tok) + Len(tok.val) + 2
    [] tok.attr \in ValueAttrs -> LeadLen(tok) + Len(tok.val) + 1
    [] tok.attr = "text" /\ tok.val = "challenge-platform" -> 18
    [] tok.attr = "text" /\ tok.val = "Just a moment" -> 13
    [] tok.attr = "long-markup" -> 2 * OtherMarkupChars
    [] OTHER -> OtherMarkupChars

RECURSIVE HtmlLength(_)
\* html.length
HtmlLength(html) ==
  IF html = <<>> THEN 0 ELSE Width(Head(html)) + HtmlLength(Tail(html))

\* the position of token i in the document
OffsetOf(html, i) == HtmlLength(SubSeq(html, 1, i - 1))

\* the positions at which the text occurs in the document (in a value)
TextPositions(html, text) ==
  UNION {{OffsetOf(html, i) + LeadLen(html[i]) + p :
            p \in Occurrences(html[i].val, text)} :
         i \in {j \in 1..Len(html) : html[j].attr \in ValueAttrs}}

\* html.indexOf(slug)
indexOf(html, text) ==
  IF TextPositions(html, text) = {} THEN -1
  ELSE Least(TextPositions(html, text))

Max(a, b) == IF a >= b THEN a ELSE b

Min(a, b) == IF a <= b THEN a ELSE b

RECURSIVE Keep(_, _, _, _)
\* the tokens of html, the first at position `at`, that lie in [start, end)
Keep(html, at, start, end) ==
  IF html = <<>> THEN <<>>
  ELSE LET rest == Keep(Tail(html), at + Width(Head(html)), start, end) IN
       IF at >= start /\ at + Width(Head(html)) <= end
       THEN <<Head(html)>> \o rest
       ELSE rest

\* html.substring(start, end): the tokens that are whole in it
substring(html, start, end) == Keep(html, 0, start, end)

RECURSIVE Match(_, _)
\* section.match(/attr="([^"]+)"/): the first token of one of the
\* attributes with a non-empty value, as a sequence of at most one token
Match(section, attrs) ==
  IF section = <<>> THEN <<>>
  ELSE IF Head(section).attr \in attrs /\ Head(section).val # <<>>
       THEN <<Head(section)>>
       ELSE Match(Tail(section), attrs)

NameAttrs == {"data-film-name", "data-item-name"}

----------------------------------------------------------------------------
(* Movie Extractor *)

RECURSIVE ExecAllAnyValue(_, _)
\* mutant of ExecAll: the pattern also matches an empty value ([^"]*)
ExecAllAnyValue(html, attrs) ==
  IF html = <<>> THEN <<>>
  ELSE IF Head(html).attr \in attrs
       THEN <<Head(html).val>> \o ExecAllAnyValue(Tail(html), attrs)
       ELSE ExecAllAnyValue(Tail(html), attrs)

RECURSIVE ExecAll(_, _)
\* while ((match = pattern.exec(html)) !== null): group 1 of every match of
\* a global pattern /attr="([^"]+)"/g, in document order
ExecAll(html, attrs) ==
  IF html = <<>> THEN <<>>
  ELSE IF Head(html).attr \in attrs /\ Head(html).val # <<>>
       THEN <<Head(html).val>> \o ExecAll(Tail(html), attrs)
       ELSE ExecAll(Tail(html), attrs)

RECURSIVE SetAdd(_, _)
\* new Set(), add(x) for each x of xs: insertion order, no duplicates
SetAdd(seen, xs) ==
  IF xs = <<>> THEN seen
  ELSE IF \E i \in 1..Len(seen) : seen[i] = Head(xs)
       THEN SetAdd(seen, Tail(xs))
       ELSE SetAdd(Append(seen, Head(xs)), Tail(xs))

\* altMatch[0]: the whole match of /alt="([^"]+)"/
WholeAlt(tok) == <<"alt=\"">> \o tok.val \o <<"\"">>

\* the record the Node extractor builds for one slug (no image in the
\* documents of the model: poster is '')
NodeMovie(html, slug) ==
  LET at == indexOf(html, slug)
      filmSection == substring(html, Max(0, at - NodeWindow),
                               Min(HtmlLength(html), at + NodeWindow))
      altMatch == Match(filmSection, {"alt"})
      nameMatch == Match(filmSection, NameAttrs)
      name == IF nameMatch # <<>> THEN nameMatch[1].val
              ELSE IF altMatch # <<>> THEN WholeAlt(altMatch[1])
              ELSE ReplaceDashes(slug)
  IN  [slug |-> slug, title |-> name, poster |-> <<>>, link |-> LinkOf(slug)]

\* the name the worker extractors resolve in a section
WorkerName(section, slug) ==
  LET nameMatch == Match(section, NameAttrs)
      altMatch == Match(section, {"alt"})
  IN  IF nameMatch # <<>> THEN nameMatch[1].val
      ELSE IF altMatch # <<>> /\ Len(altMatch[1].val) > 1 THEN altMatch[1].val
      ELSE ReplaceDashes(slug)

\* the records the worker extractor builds for one slug: none when the slug
\* is not found in the document, else one
WorkerMovie(html, slug) ==
  LET slugIndex == indexOf(html, slug)
      start == Max(0, slugIndex - WorkerWindow)
      end == Min(HtmlLength(html), slugIndex + WorkerWindow)
      section == substring(html, start, end)
      name == WorkerName(section, slug)
  IN  IF slugIndex = -1 THEN <<>>
      ELSE <<[slug |-> slug, title |-> name, year |-> YearOf(name),
              poster |-> <<>>, link |-> LinkOf(slug)]>>

RECURSIVE ForEach(_, _)
\* for (const slug of seen) { ... movies.push(...) }
ForEach(html, seen) ==
  IF seen = <<>> THEN <<>>
  ELSE WorkerMovie(html, Head(seen)) \o ForEach(html, Tail(seen))

\* src/api/watchlist.js parseMovies: one pattern, data-(film|item)-slug
parseMoviesNode(html) ==
  LET slugs == SetAdd(<<>>, ExecAll(html, {"data-film-slug", "data-item-slug"}))
  IN  [i \in 1..Len(slugs) |-> NodeMovie(html, slugs[i])]

\* scraping worker parseMovies: three patterns, one after the other
parseMovies(html) ==
  LET s1 == SetAdd(<<>>, ExecAll(html, {"data-film-slug"}))
      s2 == SetAdd(s1, ExecAll(html, {"data-item-slug"}))
      seen == SetAdd(s2, ExecAll(html, {"href-film"}))
  IN  ForEach(html, seen)

\* aggregation worker parseMovies (used by fallbackScrape)
parseMoviesAgg(html) ==
  LET s1 == SetAdd(<<>>, ExecAll(html, {"data-film-slug"}))
      s2 == SetAdd(s1, ExecAll(html, {"data-item-slug"}))
      seen == SetAdd(s2, ExecAll(html, {"href-film"}))
  IN  ForEach(html, seen)

----------------------------------------------------------------------------
(* Requests and responses *)

Methods == {"GET", "OPTIONS"}

ParamValues == {Absent, "", "alice"}

RandomValues == {Absent, "true", "1"}

Requests ==
  [method : Methods, username : ParamValues, user : ParamValues,
   random : RandomValues]

\* JavaScript truthiness of a query value
Truthy(v) == v # Absent /\ v # ""

\* a || b
OrElse(a, b) == IF Truthy(a) THEN a ELSE b

\* mutant of UsernameOf: the alias `user` is not read
UsernameOnly(r) == r.username

\* req.query.username || req.query.user
UsernameOf(r) == OrElse(r.username, r.user)

\* random === 'true'
IsRandom(r) == r.random = "true"

Reply(status, keys, error, movies, movie, total) ==
  [status |-> status, keys |-> keys, error |-> error,
   movies |-> movies, movie |-> movie, total |-> total]

OptionsReply == Reply(200, {}, "", <<>>, <<>>, 0)

ErrorReply(status, msg) == Reply(status, {"error"}, msg, <<>>, <<>>, 0)

ChallengeReply ==
  Reply(503, {"error", "cloudflare"},
        "Letterboxd is blocking requests. Try again later.", <<>>, <<>>, 0)

MovieReply(m, n) == Reply(200, {"movie", "total"}, "", <<>>, <<m>>, n)

MoviesReply(ms) == Reply(200, {"movies", "total"}, "", ms, <<>>, Len(ms))

UsernameRequired == ErrorReply(400, "Username required")

NotFoundReply == ErrorReply(404, "User not found or watchlist is private")

EmptyReply == ErrorReply(404, "Watchlist is empty or not accessible")

\* how a handler invocation ends: the responses it sent, and whether an
\* exception left it
Return(reply) == [sent |-> <<reply>>, escaped |-> FALSE]


Complete(c) ==
  /\ pc' = "done"
  /\ responses' = responses \o c.sent
  /\ escaped' = c.escaped

----------------------------------------------------------------------------
(* The network: how one outbound fetch settles *)

Statuses == {200, 201, 301, 404}

\* statuses answered for the pages after RichPages
DeepStatuses == {200, 404}

StatusesOfPage(p) == IF p <= RichPages THEN Statuses ELSE DeepStatuses

NetError ==
  [kind |-> "error", status |-> 0, location |-> FALSE, bodyError |-> FALSE,
   body |-> <<>>]

\* the responses one fetch can settle with; a redirect or an error status
\* comes with an empty body, which no handler reads
NetResponses(statuses, htmls) ==
  {o \in [kind : {"response"}, status : statuses, location : BOOLEAN,
          bodyError : BOOLEAN, body : htmls] :
     /\ o.location => o.status = 301
     /\ o.bodyError => o.body = <<>>
     /\ o.status >= 300 => o.body = <<>>}

PageOutcomes(p) ==
  {NetError} \cup NetResponses(StatusesOfPage(p), HtmlsOfPage(p))

PageUrl(p) == [kind |-> "page", n |-> p]

NoTarget == [kind |-> "none", n |-> 0]

\* the body carries one of the two markers
HasMarker(body) ==
  \E i \in 1..Len(body) : body[i].attr = "text" /\ body[i].val \in Markers

\* what is remembered of the fetch that settled last
Settled(target, o) ==
  [target |-> target, kind |-> o.kind, status |-> o.status,
   location |-> o.location, bodyError |-> o.bodyError,
   marker |-> HasMarker(o.body)]

\* mutant of ResponseOk: every status below 500 counts as a success
ResponseOkBelow500(status) == status >= 200 /\ status <= 499

\* response.ok
ResponseOk(status) == status >= 200 /\ status <= 299

\* res.statusCode >= 300 && res.statusCode < 400 && res.headers.location
IsRedirect(o) ==
  o.kind = "response" /\ o.status >= 300 /\ o.status < 400 /\ o.location

Resolved(html) == [resolved |-> TRUE, html |-> html, message |-> ""]

Rejected(msg) == [resolved |-> FALSE, html |-> <<>>, message |-> msg]

\* the promise of fetchUrl for a response that is not a followed redirect
fetchUrl(o) ==
  IF o.kind = "error" THEN Rejected("socket hang up")
  ELSE IF o.status # 200 THEN Rejected("HTTP " \o ToString(o.status))
  ELSE IF o.bodyError THEN Rejected("aborted")
  ELSE Resolved(o.body)

----------------------------------------------------------------------------
(* Pagination loop, shared shape of its three copies *)

\* mutant of LoopCond: the cap is off by one
LoopCondOffByOne(more, pg, cap) == more /\ pg <= cap + 1

\* hasMore && page <= cap
LoopCond(more, pg, cap) == more /\ pg <= cap

\* the cap of the loop of a deployment
CapOf(v) == IF v = "agg" THEN FallbackCap ELSE PrimaryCap

\* outcome of one pass through the loop body
Exit(end) ==
  [ctl |-> "return", end |-> end, page |-> 0, hasMore |-> FALSE,
   allMovies |-> <<>>, parsed |-> <<>>]

Cont(pg, more, movies, parsed) ==
  [ctl |-> "loop", end |-> [sent |-> <<>>, escaped |-> FALSE], page |-> pg,
   hasMore |-> more, allMovies |-> movies, parsed |-> parsed]

\* mutant of AfterLoop: the empty-result check is missing
AfterLoopNoEmptyCheck(movies, random) ==
  IF random /\ Len(movies) > 0
  THEN {MovieReply(movies[i], Len(movies)) : i \in 1..Len(movies)}
  ELSE {MoviesReply(movies)}

\* the statements after the loop of the two primary handlers
AfterLoop(movies, random) ==
  IF Len(movies) = 0 THEN {EmptyReply}
  ELSE IF random
       THEN {MovieReply(movies[i], Len(movies)) : i \in 1..Len(movies)}
       ELSE {MoviesReply(movies)}

\* the statements after the loop of fallbackScrape
FallbackAfterLoop(movies) ==
  IF Len(movies) = 0 THEN {EmptyReply} ELSE {MoviesReply(movies)}

\* the loop condition with the given loop variables: fetch the next page, or
\* leave the loop and answer with one of `after`
While(pg, more, movies, cap, after) ==
  /\ page' = pg
  /\ hasMore' = more
  /\ allMovies' = movies
  /\ IF LoopCond(more, pg, cap)
     THEN /\ pc' = "pageAwait"
          /\ fetchLog' = Append(fetchLog, PageUrl(pg))
          /\ hops' = 0
          /\ UNCHANGED <<responses, escaped>>
     ELSE /\ \E r \in after : Complete(Return(r))
          /\ UNCHANGED <<fetchLog, hops>>

----------------------------------------------------------------------------
(* src/api/watchlist.js *)

\* mutant of NodeLoopBody: a page's records are put in front of the list
NodeLoopBodyPrepends(pg, movies, o) ==
  LET f == fetchUrl(o) IN
  IF f.resolved
  THEN IF IsChallenge(f.html)
       THEN IF pg = 1 THEN Exit(Return(ChallengeReply))
            ELSE Cont(pg, FALSE, movies, <<>>)
       ELSE LET ms == parseMoviesNode(f.html) IN
            IF Len(ms) = 0 THEN Cont(pg, FALSE, movies, <<ms>>)
            ELSE Cont(pg + 1, TRUE, ms \o movies, <<ms>>)
  ELSE IF pg = 1 THEN Exit(Return(NotFoundReply))
       ELSE Cont(pg, FALSE, movies, <<>>)

NodeLoopBody(pg, movies, o) ==
  LET f == fetchUrl(o) IN
  IF f.resolved
  THEN IF IsChallenge(f.html)
       THEN IF pg = 1 THEN Exit(Return(ChallengeReply))
            ELSE Cont(pg, FALSE, movies, <<>>)
       ELSE LET ms == parseMoviesNode(f.html) IN
            IF Len(ms) = 0 THEN Cont(pg, FALSE, movies, <<ms>>)
            ELSE Cont(pg + 1, TRUE, movies \o ms, <<ms>>)
  ELSE IF pg = 1 THEN Exit(Return(NotFoundReply))
       ELSE Cont(pg, FALSE, movies, <<>>)

NodeStart ==
  /\ variant = "node"
  /\ pc = "start"
  /\ IF req.method = "OPTIONS"
     THEN /\ Complete(Return(OptionsReply))
          /\ UNCHANGED <<page, hasMore, allMovies, fetchLog, hops>>
     ELSE IF ~Truthy(UsernameOf(req))
     THEN /\ Complete(Return(UsernameRequired))
          /\ UNCHANGED <<page, hasMore, allMovies, fetchLog, hops>>
     ELSE While(1, TRUE, <<>>, PrimaryCap, {})
  /\ UNCHANGED <<variant, req, apiMovies, extracted, last>>
  /\ UNCHANGED <<extractVars, isoVars>>

NodeRedirect ==
  /\ variant = "node"
  /\ pc = "pageAwait"
  /\ hops < MaxRedirects
  /\ \E o \in PageOutcomes(page) :
       /\ IsRedirect(o)
       /\ last' = Settled(PageUrl(page), o)
  /\ hops' = hops + 1
  /\ UNCHANGED <<variant, req, pc, page, hasMore, allMovies, apiMovies,
                 fetchLog, extracted, responses, escaped>>
  /\ UNCHANGED <<extractVars, isoVars>>

NodePageSettles ==
  /\ variant = "node"
  /\ pc = "pageAwait"
  /\ \E o \in PageOutcomes(page) :
       /\ ~IsRedirect(o)
       /\ last' = Settled(PageUrl(page), o)
       /\ LET e == NodeLoopBody(page, allMovies, o) IN
          /\ extracted' = extracted \o e.parsed
          /\ IF e.ctl = "return"
             THEN /\ Complete(e.end)
                  /\ UNCHANGED <<page, hasMore, allMovies, fetchLog, hops>>
             ELSE While(e.page, e.hasMore, e.allMovies, PrimaryCap,
                        AfterLoop(e.allMovies, IsRandom(req)))
  /\ UNCHANGED <<variant, req, apiMovies>>
  /\ UNCHANGED <<extractVars, isoVars>>

----------------------------------------------------------------------------
(* src/unnamed/part_000, scraping worker *)

\* the platform fetch follows redirects itself: what settles is the last
\* response of the chain
WorkerPageOutcomes(p) == {o \in PageOutcomes(p) : ~IsRedirect(o)}

\* mutant of WorkerCatch: the exception is not caught
WorkerRethrow(msg) == [sent |-> <<>>, escaped |-> TRUE]

\* catch (err) of handleWatchlistAPI (scraping worker)
WorkerCatch(msg) == Return(ErrorReply(500, msg))

\* mutant of WorkerLoopBody: a page without records does not end the loop
WorkerLoopBodyIgnoresEmpty(pg, movies, o) ==
  IF o.kind = "error" THEN Exit(WorkerCatch("fetch failed"))
  ELSE IF ~ResponseOk(o.status)
  THEN IF pg = 1 THEN Exit(Return(NotFoundReply))
       ELSE Cont(pg, FALSE, movies, <<>>)
  ELSE IF o.bodyError THEN Exit(WorkerCatch("body stream error"))
  ELSE IF IsChallenge(o.body)
  THEN IF pg = 1 THEN Exit(Return(ChallengeReply))
       ELSE Cont(pg, FALSE, movies, <<>>)
  ELSE LET ms == parseMovies(o.body) IN
       Cont(pg + 1, TRUE, movies \o ms, <<ms>>)

WorkerLoopBody(pg, movies, o) ==
  IF o.kind = "error" THEN Exit(WorkerCatch("fetch failed"))
  ELSE IF ~ResponseOk(o.status)
  THEN IF pg = 1 THEN Exit(Return(NotFoundReply))
       ELSE Cont(pg, FALSE, movies, <<>>)
  ELSE IF o.bodyError THEN Exit(WorkerCatch("body stream error"))
  ELSE IF IsChallenge(o.body)
  THEN IF pg = 1 THEN Exit(Return(ChallengeReply))
       ELSE Cont(pg, FALSE, movies, <<>>)
  ELSE LET ms == parseMovies(o.body) IN
       IF Len(ms) = 0 THEN Cont(pg, FALSE, movies, <<ms>>)
       ELSE Cont(pg + 1, TRUE, movies \o ms, <<ms>>)

WorkerStart ==
  /\ variant = "worker"
  /\ pc = "start"
  /\ IF req.method = "OPTIONS"
     THEN /\ Complete(Return(OptionsReply))
          /\ UNCHANGED <<page, hasMore, allMovies, fetchLog, hops>>
     ELSE IF ~Truthy(UsernameOf(req))
     THEN /\ Complete(Return(UsernameRequired))
          /\ UNCHANGED <<page, hasMore, allMovies, fetchLog, hops>>
     ELSE While(1, TRUE, <<>>, PrimaryCap, {})
  /\ UNCHANGED <<variant, req, apiMovies, extracted, last>>
  /\ UNCHANGED <<extractVars, isoVars>>

WorkerPageSettles ==
  /\ variant = "worker"
  /\ pc = "pageAwait"
  /\ \E o \in WorkerPageOutcomes(page) :
       /\ last' = Settled(PageUrl(page), o)
       /\ LET e == WorkerLoopBody(page, allMovies, o) IN
          /\ extracted' = extracted \o e.parsed
          /\ IF e.ctl = "return"
             THEN /\ Complete(e.end)
                  /\ UNCHANGED <<page, hasMore, allMovies, fetchLog, hops>>
             ELSE While(e.page, e.hasMore, e.allMovies, PrimaryCap,
                        AfterLoop(e.allMovies, IsRandom(req)))
  /\ UNCHANGED <<variant, req, apiMovies>>
  /\ UNCHANGED <<extractVars, isoVars>>

----------------------------------------------------------------------------
(* src/unnamed/part_000, aggregation worker *)

IdUrl == [kind |-> "id", n |-> 0]

ApiUrl == [kind |-> "api", n |-> 0]

\* the x-letterboxd-identifier header of the watchlist page
Identifiers == {Absent, "", "a1b2"}

IdOutcomes ==
  {NetError} \cup
  {[kind |-> "response", status |-> s, location |-> FALSE,
    bodyError |-> FALSE, body |-> <<>>, identifier |-> h] :
     s \in Statuses, h \in Identifiers}

IdentifierOf(o) == IF o.kind = "error" THEN Absent ELSE o.identifier

\* items of the aggregation API
\* a field an item does not have (undefined)
Undefined == <<"undefined">>

Items == [slug : {Undefined, Dune}, id : {Undefined, Heat}]

\* JavaScript truthiness of an item field
TruthyText(t) == t # Undefined /\ t # <<>>

\* the decoded body of the aggregation API:
\*   "invalid"  not JSON, dataResponse.json() throws
\*   "null"     the JSON value null
\*   "nodata"   an object without data
\*   "noitems"  data without items
\*   "scalar"   items is not an array and has no length (a number, an object)
\*   "items"    items is the array `items`
JsonShapes == {"invalid", "null", "nodata", "noitems", "scalar"}

ApiBodies ==
  [shape : JsonShapes, items : {<<>>}] \cup
  [shape : {"items"}, items : SeqsUpTo(Items, MaxItems)]

ApiOutcomes ==
  {[kind |-> "error", status |-> 0, json |-> [shape |-> "invalid", items |-> <<>>]]}
  \cup [kind : {"response"}, status : Statuses, json : ApiBodies]

SettledApi(target, o) ==
  [target |-> target, kind |-> o.kind, status |-> o.status,
   location |-> FALSE, bodyError |-> FALSE, marker |-> FALSE]

\* data.data.items.map(item => ({ slug: item.slug || item.id, ... }))
\* (the items of the model have no name, year, poster or external ids)
ItemMovie(item) ==
  LET id == IF TruthyText(item.slug) THEN item.slug ELSE item.id IN
  [slug |-> id, title |-> Undefined, year |-> <<>>, poster |-> <<>>,
   link |-> LinkOf(id)]

\* catch (err) of handleWatchlistAPI (aggregation worker)
AggCatch(msg) == Return(ErrorReply(500, msg))

\* catch (err) of fallbackScrape
FallbackCatch(msg) == Return(ErrorReply(500, msg))

AggEmptyReply == ErrorReply(404, "Watchlist is empty")

\* the handler after the identifier lookup settled: "return" with a
\* response, "fallback" for fallbackScrape, "api" for the aggregation fetch
AfterIdLookup(o) ==
  IF o.kind = "error" THEN [ctl |-> "return", end |-> AggCatch("fetch failed")]
  ELSE IF ~ResponseOk(o.status)
  THEN [ctl |-> "return", end |-> Return(NotFoundReply)]
  ELSE IF ~Truthy(IdentifierOf(o))
  THEN [ctl |-> "fallback", end |-> Return(NotFoundReply)]
  ELSE [ctl |-> "api", end |-> Return(NotFoundReply)]

\* mutant of AfterApi: the scrape runs although the API answered with items
AfterApiAlsoScrapes(o, random) ==
  IF o.kind = "response" /\ ResponseOk(o.status) /\ o.json.shape = "items"
     /\ Len(o.json.items) > 0
  THEN {[ctl |-> "fallback", end |-> Return(NotFoundReply),
         movies |-> [i \in 1..Len(o.json.items) |-> ItemMovie(o.json.items[i])]]}
  ELSE {[ctl |-> "return", end |-> AggCatch("fetch failed"), movies |-> <<>>]}

ApiStep(ctl, end, movies) == [ctl |-> ctl, end |-> end, movies |-> movies]

\* the handler after the aggregation fetch settled: the set of ways it can
\* go on (one for each random index)
AfterApi(o, random) ==
  IF o.kind = "error"
  THEN {ApiStep("return", AggCatch("fetch failed"), <<>>)}
  ELSE IF ~ResponseOk(o.status)
  THEN {ApiStep("fallback", Return(NotFoundReply), <<>>)}
  ELSE IF o.json.shape = "invalid"
  THEN {ApiStep("return", AggCatch("Unexpected token"), <<>>)}
  ELSE IF o.json.shape = "null"
  THEN {ApiStep("return", AggCatch("Cannot read properties of null"), <<>>)}
  ELSE IF o.json.shape \in {"nodata", "noitems"}
          \/ (o.json.shape = "items" /\ Len(o.json.items) = 0)
  THEN {ApiStep("return", Return(AggEmptyReply), <<>>)}
  ELSE IF o.json.shape = "scalar"
  THEN {ApiStep("return", AggCatch("data.data.items.map is not a function"), <<>>)}
  ELSE LET movies == [i \in 1..Len(o.json.items) |-> ItemMovie(o.json.items[i])] IN
       IF random
       THEN {ApiStep("return", Return(MovieReply(movies[i], Len(movies))), movies) :
               i \in 1..Len(movies)}
       ELSE {ApiStep("return", Return(MoviesReply(movies)), movies)}

FallbackLoopBody(pg, movies, o) ==
  IF o.kind = "error" THEN Exit(FallbackCatch("fetch failed"))
  ELSE IF ~ResponseOk(o.status)
  THEN IF pg = 1 THEN Exit(Return(NotFoundReply))
       ELSE Cont(pg, FALSE, movies, <<>>)
  ELSE IF o.bodyError THEN Exit(FallbackCatch("body stream error"))
  ELSE IF IsChallenge(o.body)
  THEN IF pg = 1 THEN Exit(Return(ChallengeReply))
       ELSE Cont(pg, FALSE, movies, <<>>)
  ELSE LET ms == parseMoviesAgg(o.body) IN
       IF Len(ms) = 0 THEN Cont(pg, FALSE, movies, <<ms>>)
       ELSE Cont(pg + 1, TRUE, movies \o ms, <<ms>>)

\* the call of fallbackScrape up to its first await
fallbackScrape == While(1, TRUE, <<>>, FallbackCap, {})

AggStart ==
  /\ variant = "agg"
  /\ pc = "start"
  /\ IF req.method = "OPTIONS"
     THEN /\ Complete(Return(OptionsReply))
          /\ UNCHANGED fetchLog
     ELSE IF ~Truthy(UsernameOf(req))
     THEN /\ Complete(Return(UsernameRequired))
          /\ UNCHANGED fetchLog
     ELSE /\ pc' = "idAwait"
          /\ fetchLog' = Append(fetchLog, IdUrl)
          /\ UNCHANGED <<responses, escaped>>
  /\ UNCHANGED <<variant, req, page, hasMore, allMovies, apiMovies, hops,
                 extracted, last>>
  /\ UNCHANGED <<extractVars, isoVars>>

AggIdSettles ==
  /\ variant = "agg"
  /\ pc = "idAwait"
  /\ \E o \in IdOutcomes :
       /\ last' = SettledApi(IdUrl, o)
       /\ LET a == AfterIdLookup(o) IN
          CASE a.ctl = "return" ->
                 /\ Complete(a.end)
                 /\ UNCHANGED <<page, hasMore, allMovies, fetchLog, hops>>
            [] a.ctl = "fallback" -> fallbackScrape
            [] a.ctl = "api" ->
                 /\ pc' = "apiAwait"
                 /\ fetchLog' = Append(fetchLog, ApiUrl)
                 /\ UNCHANGED <<page, hasMore, allMovies, hops, responses,
                                escaped>>
  /\ UNCHANGED <<variant, req, apiMovies, extracted>>
  /\ UNCHANGED <<extractVars, isoVars>>

AggApiSettles ==
  /\ variant = "agg"
  /\ pc = "apiAwait"
  /\ \E o \in ApiOutcomes :
       /\ last' = SettledApi(ApiUrl, o)
       /\ \E a \in AfterApi(o, IsRandom(req)) :
            /\ apiMovies' = a.movies
            /\ CASE a.ctl = "return" ->
                     /\ Complete(a.end)
                     /\ UNCHANGED <<page, hasMore, allMovies, fetchLog, hops>>
                [] a.ctl = "fallback" -> fallbackScrape
  /\ UNCHANGED <<variant, req, extracted>>
  /\ UNCHANGED <<extractVars, isoVars>>

FallbackPageSettles ==
  /\ variant = "agg"
  /\ pc = "pageAwait"
  /\ \E o \in WorkerPageOutcomes(page) :
       /\ last' = Settled(PageUrl(page), o)
       /\ LET e == FallbackLoopBody(page, allMovies, o) IN
          /\ extracted' = extracted \o e.parsed
          /\ IF e.ctl = "return"
             THEN /\ Complete(e.end)
                  /\ UNCHANGED <<page, hasMore, allMovies, fetchLog, hops>>
             ELSE While(e.page, e.hasMore, e.allMovies, FallbackCap,
                        FallbackAfterLoop(e.allMovies))
  /\ UNCHANGED <<variant, req, apiMovies>>
  /\ UNCHANGED <<extractVars, isoVars>>

----------------------------------------------------------------------------
(* Specification *)

NoOutcome ==
  [target |-> NoTarget, kind |-> "none", status |-> 0, location |-> FALSE,
   bodyError |-> FALSE, marker |-> FALSE]

\* no extractor call and no pair of requests is being looked at
ExtractIdle == exIn = <<>> /\ exBy = "none" /\ exOut = <<>>

IsoIdle == isoFrames = <<>> /\ isoLists = <<>>

Init ==
  /\ ExtractIdle
  /\ IsoIdle
  /\ variant \in Variants
  /\ req \in Requests
  /\ pc = "start"
  /\ page = 1
  /\ hasMore = TRUE
  /\ allMovies = <<>>
  /\ apiMovies = <<>>
  /\ hops = 0
  /\ fetchLog = <<>>
  /\ extracted = <<>>
  /\ last = NoOutcome
  /\ responses = <<>>
  /\ escaped = FALSE

Next ==
  \/ NodeStart
  \/ NodeRedirect
  \/ NodePageSettles
  \/ WorkerStart
  \/ WorkerPageSettles
  \/ AggStart
  \/ AggIdSettles
  \/ AggApiSettles
  \/ FallbackPageSettles

Spec == Init /\ [][Next]_vars

\* every outbound fetch settles, and the handler runs on when it has
FairSpec == Spec /\ WF_vars(Next)

----------------------------------------------------------------------------
(* One call of an extractor, or of the item mapping, on its own *)

Heat2 == <<"h", "e", "a", "t", "-", "2">>

HeatTitle == <<"H", "e", "a", "t", " ", "(", "1", "9", "9", "5", ")">>

AltTexts == {<<"H">>, <<"H", "e", "a", "t", " ", "2">>}

\* the markup of the documents: identifiers (one with a '-', one empty
\* value), a name, alt texts of length 1 and more, runs of other markup
ExTokens ==
  [attr : SlugAttrs, val : {Heat, Heat2, <<>>}]
    \cup [attr : {"data-film-name"}, val : {HeatTitle}]
    \cup [attr : {"alt"}, val : AltTexts]
    \cup [attr : {"markup", "long-markup"}, val : {<<>>}]

ExHtmls == SeqsUpTo(ExTokens, ExMaxLen)

ExItems == [slug : {Undefined, <<>>, Dune}, id : {Undefined, Heat}]

NoItem == [slug |-> Undefined, id |-> Undefined]

ExInputs ==
  [kind : {"html"}, html : ExHtmls, item : {NoItem}]
    \cup [kind : {"item"}, html : {<<>>}, item : ExItems]

\* no request is being served
HandlerIdle ==
  /\ req = [method |-> "OPTIONS", username |-> Absent, user |-> Absent,
            random |-> Absent]
  /\ pc = "idle"
  /\ page = 1
  /\ hasMore = TRUE
  /\ allMovies = <<>>
  /\ apiMovies = <<>>
  /\ hops = 0
  /\ fetchLog = <<>>
  /\ extracted = <<>>
  /\ last = NoOutcome
  /\ responses = <<>>
  /\ escaped = FALSE

ExInit ==
  /\ variant = "node"
  /\ HandlerIdle
  /\ IsoIdle
  /\ exIn \in ExInputs
  /\ exBy = "none"
  /\ exOut = <<>>

Called(by, out) ==
  /\ exBy = "none"
  /\ exBy' = by
  /\ exOut' = out
  /\ UNCHANGED <<exIn, handlerVars, isoVars>>

\* src/api/watchlist.js: parseMovies(html)
ExtractNode == exIn.kind = "html" /\ Called("node", parseMoviesNode(exIn.html))

\* scraping worker: parseMovies(html)
ExtractWorker == exIn.kind = "html" /\ Called("worker", parseMovies(exIn.html))

\* aggregation worker: parseMovies(html)
ExtractAgg == exIn.kind = "html" /\ Called("agg", parseMoviesAgg(exIn.html))

\* aggregation worker: the callback of data.data.items.map
MapItem == exIn.kind = "item" /\ Called("item", <<ItemMovie(exIn.item)>>)

ExNext == ExtractNode \/ ExtractWorker \/ ExtractAgg \/ MapItem

ExtractSpec == ExInit /\ [][ExNext]_vars

----------------------------------------------------------------------------
(* Two requests served by one process, their awaits interleaved.  The     *)
(* locals of an invocation (page, hasMore, the reference to its array)     *)
(* are in its frame; the arrays themselves are in isoLists                 *)

IsoReqs == {1, 2}

IsoRequests ==
  [method : {"GET"}, username : {"", "alice"}, user : {Absent},
   random : {Absent, "true"}]

\* the film on the watchlist of the user of request r
IsoSlugOf(r) == IF r = 1 THEN Dune ELSE Heat

\* mutant of AllMoviesCell: one array at module scope for every invocation
AllMoviesShared(r) == 1

\* let allMovies = []: the array of invocation r is its own
AllMoviesCell(r) == r

IsoHtmls(r, p) ==
  {<<>>, <<[attr |-> "text", val |-> "Just a moment"]>>}
    \cup (IF p <= IsoPages
          THEN {<<[attr |-> "data-film-slug", val |-> IsoSlugOf(r)]>>}
          ELSE {})

IsoPageOutcomes(r, p) ==
  {NetError} \cup
  {o \in NetResponses({200, 404}, IsoHtmls(r, p)) : ~o.bodyError}

IsoIdOutcomes ==
  {o \in IdOutcomes :
     o.kind = "response" =>
       (o.status \in {200, 404} /\ o.identifier # ""
          /\ (o.status = 404 => o.identifier = Absent))}

IsoApiOutcomes(r) ==
  {o \in ApiOutcomes : o.kind = "error"} \cup
  {o \in [kind : {"response"}, status : {200, 404},
          json : [shape : {"items"},
                  items : {<<>>, <<[slug |-> IsoSlugOf(r), id |-> Undefined]>>}]] :
     o.status = 404 => o.json.items = <<>>}

NothingSent == [sent |-> <<>>, escaped |-> FALSE]

Frame(r) ==
  [req |-> r, pc |-> "start", page |-> 1, hasMore |-> TRUE, idOut |-> <<>>,
   apiOut |-> <<>>, pageOuts |-> <<>>, end |-> NothingSent, overlapped |-> FALSE]

IsoInit ==
  /\ variant \in Variants
  /\ HandlerIdle
  /\ ExtractIdle
  /\ isoFrames \in [IsoReqs -> {Frame(r) : r \in IsoRequests}]
  /\ isoLists = [r \in IsoReqs |-> <<>>]

\* the loop body and the statements after the loop of a deployment
LoopBodyOf(v, pg, movies, o) ==
  CASE v = "node" -> NodeLoopBody(pg, movies, o)
    [] v = "worker" -> WorkerLoopBody(pg, movies, o)
    [] v = "agg" -> FallbackLoopBody(pg, movies, o)

AfterLoopOf(v, movies, random) ==
  IF v = "agg" THEN FallbackAfterLoop(movies) ELSE AfterLoop(movies, random)

\* another invocation is between its first and its last step
Overlaps(r) == \E q \in IsoReqs \ {r} : isoFrames[q].pc \notin {"start", "done"}

\* invocation r goes on with frame fr
Goes(r, fr) ==
  isoFrames' = [isoFrames EXCEPT ![r] = [fr EXCEPT !.overlapped = @ \/ Overlaps(r)]]

Ends(r, fr, end) == Goes(r, [fr EXCEPT !.pc = "done", !.end = end])

\* the loop condition of invocation r with the given loop variables
IsoWhile(r, fr, pg, more, movies, after) ==
  /\ isoLists' = [isoLists EXCEPT ![AllMoviesCell(r)] = movies]
  /\ IF LoopCond(more, pg, CapOf(variant))
     THEN Goes(r, [fr EXCEPT !.pc = "pageAwait", !.page = pg, !.hasMore = more])
     ELSE \E reply \in after :
            Ends(r, [fr EXCEPT !.page = pg, !.hasMore = more], Return(reply))

IsoStart(r) ==
  LET fr == isoFrames[r] IN
  /\ fr.pc = "start"
  /\ IF ~Truthy(UsernameOf(fr.req))
     THEN Ends(r, fr, Return(UsernameRequired)) /\ UNCHANGED isoLists
     ELSE IF variant = "agg"
     THEN Goes(r, [fr EXCEPT !.pc = "idAwait"]) /\ UNCHANGED isoLists
     ELSE IsoWhile(r, fr, 1, TRUE, <<>>, {})
  /\ UNCHANGED <<handlerVars, extractVars>>

IsoIdSettles(r) ==
  LET fr == isoFrames[r] IN
  /\ fr.pc = "idAwait"
  /\ \E o \in IsoIdOutcomes :
       LET a == AfterIdLookup(o)
           fo == [fr EXCEPT !.idOut = <<o>>]
       IN  CASE a.ctl = "return" -> Ends(r, fo, a.end) /\ UNCHANGED isoLists
             [] a.ctl = "fallback" -> IsoWhile(r, fo, 1, TRUE, <<>>, {})
             [] a.ctl = "api" ->
                  Goes(r, [fo EXCEPT !.pc = "apiAwait"]) /\ UNCHANGED isoLists
  /\ UNCHANGED <<handlerVars, extractVars>>

IsoApiSettles(r) ==
  LET fr == isoFrames[r] IN
  /\ fr.pc = "apiAwait"
  /\ \E o \in IsoApiOutcomes(r) :
       \E a \in AfterApi(o, IsRandom(fr.req)) :
         LET fo == [fr EXCEPT !.apiOut = <<o>>] IN
         CASE a.ctl = "return" -> Ends(r, fo, a.end) /\ UNCHANGED isoLists
           [] a.ctl = "fallback" -> IsoWhile(r, fo, 1, TRUE, <<>>, {})
  /\ UNCHANGED <<handlerVars, extractVars>>

IsoPageSettles(r) ==
  LET fr == isoFrames[r] IN
  /\ fr.pc = "pageAwait"
  /\ \E o \in IsoPageOutcomes(r, fr.page) :
       LET e == LoopBodyOf(variant, fr.page, isoLists[AllMoviesCell(r)], o)
           fo == [fr EXCEPT !.pageOuts = Append(@, o)]
       IN  IF e.ctl = "return"
           THEN Ends(r, fo, e.end) /\ UNCHANGED isoLists
           ELSE IsoWhile(r, fo, e.page, e.hasMore, e.allMovies,
                         AfterLoopOf(variant, e.allMovies, IsRandom(fr.req)))
  /\ UNCHANGED <<handlerVars, extractVars>>

IsoNext ==
  \E r \in IsoReqs :
    \/ IsoStart(r)
    \/ IsoIdSettles(r)
    \/ IsoApiSettles(r)
    \/ IsoPageSettles(r)

IsoSpec == IsoInit /\ [][IsoNext]_vars

----------------------------------------------------------------------------
(* Vocabulary of the properties *)

Done == pc = "done"

PageFetchIndexes == {i \in 1..Len(fetchLog) : fetchLog[i].kind = "page"}

PageFetches == Cardinality(PageFetchIndexes)

RECURSIVE Flatten(_)
Flatten(ss) == IF ss = <<>> THEN <<>> ELSE Head(ss) \o Flatten(Tail(ss))

Elems(q) == {q[i] : i \in 1..Len(q)}

\* the fetch that settled last was the fetch of page p
LastWasPage(p) == last.target = PageUrl(p)

\* the last fetch answered, and the answer was not a redirect fetchUrl follows
LastAnswered == last.kind = "response" /\ ~last.location

\* the last fetch threw a transport error
LastThrew == last.kind = "error"

\* the records the response is built from
Collected == IF apiMovies # <<>> THEN apiMovies ELSE allMovies

----------------------------------------------------------------------------
(* C1 *)

\* C1: every scraping loop issues at most cap page fetches (20 in the
\* primary handlers, 10 in fallbackScrape), never requests page cap + 1, and
\* has sent its response once the page counter has passed the cap.
C1_PaginationBounded ==
  /\ PageFetches <= CapOf(variant)
  /\ \A i \in PageFetchIndexes : fetchLog[i].n \in 1..CapOf(variant)
  /\ page > CapOf(variant) => Done /\ Len(responses) = 1

\* every page up to the cap yielded records, and the list was answered
C1_Witness ==
  /\ PageFetches = CapOf(variant)
  /\ page = CapOf(variant) + 1
  /\ Len(allMovies) >= CapOf(variant)
  /\ Done
  /\ responses = <<MoviesReply(allMovies)>>

----------------------------------------------------------------------------
(* C2 *)

\* C2: when pages 1..p-1 (p > 1) each yielded a record and the fetch of
\* page p fails (non-2xx status, bot-challenge body or transport error), the
\* handler fetches no page beyond p and answers 200 with exactly the records
\* of pages 1..p-1, never with an error status.
C2_LaterFailuresSwallowed ==
  (/\ Done
   /\ last.target.kind = "page"
   /\ last.target.n > 1
   /\ \/ LastThrew
      \/ LastAnswered /\ ~(last.status >= 200 /\ last.status <= 299)
      \/ LastAnswered /\ last.marker)
  => /\ Len(responses) = 1
     /\ responses[1].status = 200
     /\ allMovies = Flatten(extracted)
     /\ responses[1].total = Len(allMovies)
     /\ \/ responses[1].movies = allMovies
        \/ responses[1].movie # <<>> /\ responses[1].movie[1] \in Elems(allMovies)
     /\ \A i \in PageFetchIndexes : fetchLog[i].n <= last.target.n

----------------------------------------------------------------------------
(* C3 *)

\* C3: in every variant and data path, a request with random=true whose
\* collected list has n > 0 records is answered 200 with exactly one `movie`
\* taken from the list, `total` = n and no `movies` list.
C3_RandomFlag ==
  (/\ Done
   /\ req.method # "OPTIONS"
   /\ req.random = "true"
   /\ Len(responses) = 1
   /\ responses[1].status = 200)
  => /\ responses[1].keys = {"movie", "total"}
     /\ Len(responses[1].movie) = 1
     /\ responses[1].movie[1] \in Elems(Collected)
     /\ responses[1].total = Len(Collected)

----------------------------------------------------------------------------
(* C4 *)

\* C4: in every 200 full-list response built by the scraping loop, no two
\* records of `movies` have the same slug.
C4_SlugsUnique ==
  \A k \in 1..Len(responses) :
    (responses[k].status = 200 /\ "movies" \in responses[k].keys
       /\ apiMovies = <<>>)
    => \A i, j \in 1..Len(responses[k].movies) :
         i # j => responses[k].movies[i].slug # responses[k].movies[j].slug

----------------------------------------------------------------------------
(* C5 *)

\* C5: in the aggregation variant, whenever the alternate path does not
\* produce the records (identifier lookup failed, header missing, API
\* failed, item list empty or malformed, an exception), fallbackScrape runs:
\* page 1 of the watchlist is fetched.
C5_AlwaysFallsBack ==
  (/\ variant = "agg"
   /\ Done
   /\ req.method # "OPTIONS"
   /\ fetchLog # <<>>
   /\ apiMovies = <<>>)
  => \E i \in 1..Len(fetchLog) : fetchLog[i] = PageUrl(1)

----------------------------------------------------------------------------
(* C6 *)

\* C6: when the fetch of page 1 answers with a non-2xx status, the handler
\* has answered 404 "User not found or watchlist is private" and has issued
\* no other page fetch.
C6_FirstPageNotFound ==
  (/\ LastWasPage(1)
   /\ LastAnswered
   /\ ~(last.status >= 200 /\ last.status <= 299))
  => /\ Done
     /\ responses = <<NotFoundReply>>
     /\ PageFetches = 1

C6_Witness ==
  /\ LastWasPage(1)
  /\ LastAnswered
  /\ last.status = 404
  /\ Done
  /\ responses = <<NotFoundReply>>

----------------------------------------------------------------------------
(* C7 *)

\* the handler's own test of a successful page fetch: fetchUrl resolves on
\* status 200 only, the platform fetch is ok on every 2xx
PageFetchSucceeded ==
  /\ LastAnswered
  /\ ~last.bodyError
  /\ IF variant = "node" THEN last.status = 200
     ELSE last.status >= 200 /\ last.status <= 299

\* the answer to a first-page challenge: 503 with cloudflare: true, no
\* extraction, no further page fetch
ChallengeAnswered ==
  /\ Done
  /\ Len(responses) = 1
  /\ responses[1].status = 503
  /\ "cloudflare" \in responses[1].keys
  /\ extracted = <<>>
  /\ PageFetches = 1

----------------------------------------------------------------------------
(* C8 *)

\* C8: when pagination ends with zero records (page 1 was extracted to
\* nothing), the answer is 404 "Watchlist is empty or not accessible"; and no
\* 200 response carries an empty `movies` list or a `total` of 0.
C8_EmptyResult ==
  /\ (extracted # <<>> /\ allMovies = <<>>) => responses = <<EmptyReply>>
  /\ \A k \in 1..Len(responses) :
       responses[k].status = 200 =>
         /\ "total" \in responses[k].keys => responses[k].total > 0
         /\ "movies" \in responses[k].keys => responses[k].movies # <<>>

C8_Witness ==
  /\ LastWasPage(1)
  /\ PageFetchSucceeded
  /\ extracted = << <<>> >>
  /\ Done
  /\ responses = <<EmptyReply>>

----------------------------------------------------------------------------
(* C9 *)

\* C9: a non-OPTIONS request with `username` and `user` both absent or empty
\* is answered 400 "Username required" and no fetch is ever issued; with
\* either of them non-empty no 400 is ever sent.
C9_MissingUsername ==
  req.method # "OPTIONS" =>
    IF ~Truthy(req.username) /\ ~Truthy(req.user)
    THEN /\ fetchLog = <<>>
         /\ pc \in {"start", "done"}
         /\ Done => responses = <<UsernameRequired>>
    ELSE \A k \in 1..Len(responses) : responses[k].status # 400

C9_Witness ==
  /\ req.method = "GET"
  /\ req.username = ""
  /\ req.user = Absent
  /\ Done
  /\ responses = <<UsernameRequired>>

----------------------------------------------------------------------------
(* C10 *)

ReplyStatuses == {200, 400, 404, 503, 500}

\* C10: provided every fetch settles, the handler sends exactly one
\* response: never two, eventually one, its status among 200, 400, 404, 503
\* and 500, and no exception leaves the handler.
C10_ExactlyOneResponse ==
  /\ [](/\ Len(responses) <= 1
        /\ ~escaped
        /\ \A k \in 1..Len(responses) : responses[k].status \in ReplyStatuses
        /\ Done => Len(responses) = 1)
  /\ <>(Done /\ Len(responses) = 1)

\* a transport error was caught and answered
C10_Witness ==
  /\ Done
  /\ LastThrew
  /\ ~escaped
  /\ Len(responses) = 1
  /\ responses[1].status = 500

----------------------------------------------------------------------------
(* C11 *)

\* the messages of the transport errors a page fetch throws
TransportMessages == {"fetch failed", "socket hang up"}

\* C11: a transport-level error thrown by a page fetch is answered 500 with
\* the exception's message in `error`, and never 404 or 503.
C11_TransportErrorIs500 ==
  (Done /\ last.target.kind = "page" /\ LastThrew)
  => /\ Len(responses) = 1
     /\ responses[1].status = 500
     /\ responses[1].keys = {"error"}
     /\ responses[1].error \in TransportMessages

----------------------------------------------------------------------------
(* C12 *)

\* C12: in the aggregation variant, once the API has answered with a
\* non-empty item list no page of the watchlist is fetched or extracted and
\* the response is built from the API items alone; a response built from
\* scraped records never follows API items.
C12_OneDataPath ==
  variant = "agg" =>
    /\ apiMovies # <<>> =>
         /\ PageFetches = 0
         /\ extracted = <<>>
         /\ allMovies = <<>>
         /\ Done
         /\ \/ responses = <<MoviesReply(apiMovies)>>
            \/ \E i \in 1..Len(apiMovies) :
                 responses = <<MovieReply(apiMovies[i], Len(apiMovies))>>
    /\ PageFetches > 0 => apiMovies = <<>>

C12_Witness ==
  /\ variant = "agg"
  /\ Len(apiMovies) = 2
  /\ Done
  /\ responses = <<MoviesReply(apiMovies)>>
  /\ fetchLog = <<IdUrl, ApiUrl>>

----------------------------------------------------------------------------
(* C14 *)

\* the page numbers requested so far, in the order of the requests
RequestedPages ==
  LET idx == PageFetchIndexes
      nth(k) == CHOOSE i \in idx : Cardinality({j \in idx : j < i}) = k - 1
  IN  [k \in 1..Cardinality(idx) |-> fetchLog[nth(k)].n]

\* C14: within one request the pages requested are exactly 1, 2, ..., k in
\* this order; page p + 1 is requested only after page p was extracted to at
\* least one record; and a fetch is issued only in a step in which the fetch
\* before it settles, one at a time.
C14_SequentialPages ==
  /\ [](/\ \A k \in 1..Len(RequestedPages) : RequestedPages[k] = k
        /\ Len(extracted) >= PageFetches - 1
        /\ \A k \in 1..(PageFetches - 1) : extracted[k] # <<>>)
  /\ [][fetchLog' # fetchLog =>
          /\ Len(fetchLog') = Len(fetchLog) + 1
          /\ SubSeq(fetchLog', 1, Len(fetchLog)) = fetchLog
          /\ fetchLog # <<>> =>
               /\ last'.target = fetchLog[Len(fetchLog)]
               /\ last'.kind = "response"]_vars

\* three pages were requested one after the other
C14_Witness ==
  /\ PageFetches = 3
  /\ RequestedPages = <<1, 2, 3>>
  /\ Len(extracted) = 2
  /\ pc = "pageAwait"

----------------------------------------------------------------------------
(* C15 *)

IsPrefix(a, b) == Len(a) <= Len(b) /\ SubSeq(b, 1, Len(a)) = a

\* C15: in every 200 full-list response of the scraping loop, `movies` is
\* the concatenation, in page order, of the extraction results of the pages
\* fetched (each contiguous, in extraction order) and `total` is its length;
\* the accumulated list only ever grows at its end.
C15_InOrderConcatenation ==
  /\ [](\A k \in 1..Len(responses) :
          (responses[k].status = 200 /\ "movies" \in responses[k].keys
             /\ apiMovies = <<>>)
          => /\ responses[k].movies = Flatten(extracted)
             /\ responses[k].total = Len(responses[k].movies))
  /\ [][IsPrefix(allMovies, allMovies')]_vars

\* two pages with different records were put together
C15_Witness ==
  /\ Done
  /\ Len(extracted) = 3
  /\ extracted[1] # extracted[2]
  /\ Len(extracted[1]) = 2
  /\ extracted[3] = <<>>
  /\ responses = <<MoviesReply(extracted[1] \o extracted[2])>>

----------------------------------------------------------------------------
(* C16 *)

Extractors == {"node", "worker", "agg"}

\* an extractor has returned
Extracted == exBy \in Extractors

\* the identifiers the three patterns match in a document
IdentifiersMatched(html) ==
  {html[i].val : i \in {j \in 1..Len(html) :
                          html[j].attr \in SlugAttrs /\ html[j].val # <<>>}}

\* C16: in every variant of the extractor the slugs of the returned records
\* are exactly the identifiers matched by the three patterns (data-film-slug,
\* data-item-slug, href="/film/<id>/"), one record per identifier.
C16_IdentifierSet ==
  Extracted =>
    /\ {exOut[k].slug : k \in 1..Len(exOut)} = IdentifiersMatched(exIn.html)
    /\ Len(exOut) = Cardinality(IdentifiersMatched(exIn.html))

----------------------------------------------------------------------------
(* C17 *)

\* the local context window of an identifier in the variant `by`
WindowOf(by, html, slug) ==
  LET at == indexOf(html, slug)
      w == IF by = "node" THEN NodeWindow ELSE WorkerWindow
  IN  substring(html, Max(0, at - w), Min(HtmlLength(html), at + w))

\* name attribute, else alt text longer than 1, else the identifier
TitleByPriority(section, slug) ==
  LET names == Match(section, NameAttrs)
      alts == Match(section, {"alt"})
  IN  IF names # <<>> THEN names[1].val
      ELSE IF alts # <<>> /\ Len(alts[1].val) > 1 THEN alts[1].val
      ELSE ReplaceDashes(slug)

\* C17: in every variant of the extractor the title of a record is the value
\* of the name attribute of its window, else the text between the quotes of
\* the alt attribute of its window when that is longer than 1, else the
\* identifier with each '-' replaced by a space.
C17_TitlePriority ==
  Extracted =>
    \A k \in 1..Len(exOut) :
      exOut[k].title =
        TitleByPriority(WindowOf(exBy, exIn.html, exOut[k].slug), exOut[k].slug)

----------------------------------------------------------------------------
(* C18 *)

\* C18: every record an extractor returns has a non-empty slug, and the link
\* of every record, of an extractor or of the item mapping, is
\* "https://letterboxd.com/film/" + slug + "/".
C18_WellFormed ==
  \A k \in 1..Len(exOut) :
    /\ Extracted => exOut[k].slug # <<>>
    /\ exOut[k].link =
         <<"https://letterboxd.com/film/">> \o exOut[k].slug \o <<"/">>

\* an extractor returned two records from a document that also has an
\* identifier attribute with an empty value
C18_Witness ==
  /\ Extracted
  /\ Len(exOut) = 2
  /\ \E i \in 1..Len(exIn.html) :
       exIn.html[i].attr \in SlugAttrs /\ exIn.html[i].val = <<>>

----------------------------------------------------------------------------
(* C19 *)

\* C19: every record of every variant of the extractor has a year field: the
\* four digits of the first "(YYYY)" of its title, or the empty text.
C19_YearField ==
  Extracted =>
    \A k \in 1..Len(exOut) :
      /\ "year" \in DOMAIN exOut[k]
      /\ exOut[k].year = YearOf(exOut[k].title)

----------------------------------------------------------------------------
(* C13 *)

RECURSIVE AloneLoop(_, _, _, _, _, _)
\* the ends the loop of deployment v comes to when it runs on its own with
\* the loop variables pg, more, movies and is answered outs
AloneLoop(v, random, pg, more, movies, outs) ==
  IF ~LoopCond(more, pg, CapOf(v))
  THEN {Return(reply) : reply \in AfterLoopOf(v, movies, random)}
  ELSE IF outs = <<>> THEN {}
  ELSE UNION {IF e.ctl = "return" THEN {e.end}
              ELSE AloneLoop(v, random, e.page, e.hasMore, e.allMovies, Tail(outs)) :
              e \in {LoopBodyOf(v, pg, movies, Head(outs))}}

\* the loop entered from its start, where nothing follows a failed condition
AloneScrape(v, random, outs) ==
  IF outs = <<>> THEN {} ELSE AloneLoop(v, random, 1, TRUE, <<>>, outs)

\* the ends of a request served alone against the fetch outcomes of frame fr
Alone(v, fr) ==
  LET random == IsRandom(fr.req) IN
  IF ~Truthy(UsernameOf(fr.req)) THEN {Return(UsernameRequired)}
  ELSE IF v # "agg" THEN AloneScrape(v, random, fr.pageOuts)
  ELSE IF fr.idOut = <<>> THEN {}
  ELSE LET a == AfterIdLookup(fr.idOut[1]) IN
       CASE a.ctl = "return" -> {a.end}
         [] a.ctl = "fallback" -> AloneScrape(v, random, fr.pageOuts)
         [] a.ctl = "api" ->
              IF fr.apiOut = <<>> THEN {}
              ELSE UNION {IF b.ctl = "return" THEN {b.end}
                          ELSE AloneScrape(v, random, fr.pageOuts) :
                          b \in AfterApi(fr.apiOut[1], random)}

====
